---- MODULE Spec2Model ----
(***************************************************************************)
(* A model of ls-option (src/src/option.rs): the ListOption builder and    *)
(* the list / inner_list directory walk with its two predicates.           *)
(*                                                                         *)
(* A name is a sequence of one-character strings, so that starts_with and  *)
(* ends_with and the "." prefix of ext/exts are computed, not assumed.     *)
(* A path is the sequence of its components; Path::file_name is the last   *)
(* one.  The filesystem is a tree of nodes; what the standard library      *)
(* answers about an entry (is_file, is_dir, read_dir, canonicalize) is     *)
(* read off the node.                                                      *)
(***************************************************************************)
EXTENDS Integers, Sequences, FiniteSets

VARIABLES
    opt,    \* the ListOption value the caller holds
    fs,     \* the filesystem: the root node of a tree
    build,  \* how the crate was compiled: overflow checks on or off
    calls,  \* history: the builder calls made so far, in order
    res     \* what the most recent call returned

vars == <<opt, fs, build, calls, res>>

----------------------------------------------------------------------------
(* Bounds of the model *)

\* levels 0..MaxLevel are given to level()
MaxLevel == 2
\* number of nested directories below the root directory's own subdirectory
MaxDepth == 2
\* number of builder calls in a history
MaxCalls == 2
\* length of the lists given to exts() and sufs()
MaxListLen == 2

\* usize::MAX, what 0 - 1 wraps to without overflow checks.  The program's
\* value is 2^64 - 1; the model uses the largest integer TLC represents.  It
\* only has to exceed the depth of every tree.
UsizeMax == 2147483647

----------------------------------------------------------------------------
(* Strings *)

DOT == "."

\* str::starts_with(char)
StartsWith(s, c) == Len(s) > 0 /\ s[1] = c

\* str::ends_with(&str)
EndsWith(s, suf) ==
    /\ Len(suf) <= Len(s)
    /\ SubSeq(s, Len(s) - Len(suf) + 1, Len(s)) = suf

\* format!(".{}", s)
DotFormat(s) == <<DOT>> \o s

\* s.to_string()
to_string(s) == s

\* xs.iter().map(f).collect()
RECURSIVE MapDot(_)
MapDot(xs) == IF xs = <<>> THEN <<>> ELSE <<DotFormat(Head(xs))>> \o MapDot(Tail(xs))

RECURSIVE MapToString(_)
MapToString(xs) ==
    IF xs = <<>> THEN <<>> ELSE <<to_string(Head(xs))>> \o MapToString(Tail(xs))

DotRS   == <<".", "r", "s">>
DotTOML == <<".", "t", "o", "m", "l">>

----------------------------------------------------------------------------
(* ListOption and its builder *)

Default ==
    [dir |-> TRUE, file |-> TRUE, hidden |-> FALSE, unhidden |-> TRUE,
     recursive |-> FALSE, level |-> 1, sufs |-> <<>>]

dir(o, if_show)         == [o EXCEPT !.dir = if_show]
file(o, if_show)        == [o EXCEPT !.file = if_show]
hidden(o, if_show)      == [o EXCEPT !.hidden = if_show]
unhidden(o, if_show)    == [o EXCEPT !.unhidden = if_show]
level(o, lv)            == [o EXCEPT !.level = lv]
recursive(o, if_choose) == [o EXCEPT !.recursive = if_choose]

\* ext as it would be without the "." prefix
ext_without_dot(o, e) == [o EXCEPT !.sufs = Append(@, e)]

ext(o, e)   == [o EXCEPT !.sufs = Append(@, DotFormat(e))]
exts(o, es) == [o EXCEPT !.sufs = MapDot(es)]

\* suf as its doc comment describes it: shadowing what was there
suf_replacing(o, s) == [o EXCEPT !.sufs = <<to_string(s)>>]

suf(o, s)   == [o EXCEPT !.sufs = Append(@, to_string(s))]
sufs(o, ss) == [o EXCEPT !.sufs = MapToString(ss)]

----------------------------------------------------------------------------
(* The filesystem, as the standard library reports it *)

\* A node: kind is "file", "dir" or "broken" (an entry whose metadata cannot
\* be read, e.g. a dangling symlink: exists, is_file and is_dir all answer
\* false).  readable: read_dir succeeds.  canon: what canonicalize answers,
\* ok = FALSE when it fails, name = the final component of the canonical
\* path, <<>> when that path has none ("/").
Node(n, k, c, r, ch) ==
    [name |-> n, kind |-> k, canon |-> c, readable |-> r, children |-> ch]

NoNode == Node(<<>>, "none", [ok |-> FALSE, name |-> <<>>], FALSE, <<>>)

RECURSIVE Lookup(_, _)
Lookup(n, p) ==
    IF p = <<>> \/ p[1] # n.name THEN NoNode
    ELSE IF Len(p) = 1 THEN n
    ELSE IF n.kind # "dir" THEN NoNode
    ELSE LET cs == {i \in DOMAIN n.children : n.children[i].name = p[2]}
         IN  IF cs = {} THEN NoNode
             ELSE Lookup(n.children[CHOOSE i \in cs : TRUE], Tail(p))

\* Path::exists, Path::is_file, Path::is_dir: false on any error
exists(p)  == Lookup(fs, p).kind \in {"file", "dir"}
is_file(p) == Lookup(fs, p).kind = "file"
is_dir(p)  == Lookup(fs, p).kind = "dir"

\* Path::file_name of a path the walk built: its last component
file_name(p) == p[Len(p)]

----------------------------------------------------------------------------
(* The walk.  A call returns [status, why, ret, derived, root]: status     *)
(* "ok" with the vector ret, or status "panic" (an unwrap or an arithmetic *)
(* check failed; no vector is returned).  derived records each child level *)
(* the walk computed, as [level, recursive, child]; root is filled in by   *)
(* the caller with the path it passed.                                     *)

Ok(ret, derived) ==
    [status |-> "ok", why |-> "", ret |-> ret, derived |-> derived, root |-> <<>>]

Panic(why, derived) ==
    [status |-> "panic", why |-> why, ret |-> <<>>, derived |-> derived, root |-> <<>>]

\* self.level - 1 on usize: with overflow checks 0 - 1 panics, without
\* them it wraps
level_minus_one(lv) ==
    IF lv > 0 THEN [panic |-> FALSE, val |-> lv - 1]
    ELSE IF build = "checked" THEN [panic |-> TRUE, val |-> 0]
    ELSE [panic |-> FALSE, val |-> UsizeMax]

\* let next_level = if self.recursive { self.level } else { self.level - 1 }
next_level(o) ==
    IF o.recursive THEN [panic |-> FALSE, val |-> o.level]
    ELSE level_minus_one(o.level)

\* check_if_show_file as it would be without the test of self.file
show_file_any_type(o, file_path) ==
    LET base_name == file_name(file_path)
    IN  /\ (o.sufs = <<>> \/ \E i \in DOMAIN o.sufs : EndsWith(base_name, o.sufs[i]))
        /\ (\/ o.hidden /\ StartsWith(base_name, DOT)
            \/ o.unhidden /\ ~StartsWith(base_name, DOT))

\* check_if_show_file as it would be without the hidden branch
show_file_unhidden_only(o, file_path) ==
    LET base_name == file_name(file_path)
    IN  /\ o.file
        /\ (o.sufs = <<>> \/ \E i \in DOMAIN o.sufs : EndsWith(base_name, o.sufs[i]))
        /\ o.unhidden /\ ~StartsWith(base_name, DOT)

check_if_show_file(o, file_path) ==
    LET base_name == file_name(file_path)
    IN  /\ o.file
        /\ (o.sufs = <<>> \/ \E i \in DOMAIN o.sufs : EndsWith(base_name, o.sufs[i]))
        /\ (\/ o.hidden /\ StartsWith(base_name, DOT)
            \/ o.unhidden /\ ~StartsWith(base_name, DOT))

\* check_if_list_dir as it would be without `|| self.recursive`
list_dir_by_level_only(o, dir_path) ==
    LET c == Lookup(fs, dir_path).canon
    IN  IF ~c.ok THEN [panic |-> TRUE, why |-> "canonicalize", val |-> FALSE]
        ELSE IF c.name = <<>> THEN [panic |-> TRUE, why |-> "file_name", val |-> FALSE]
        ELSE [panic |-> FALSE, why |-> "",
              val |-> /\ o.level > 0
                      /\ (\/ o.hidden /\ StartsWith(c.name, DOT)
                          \/ o.unhidden /\ ~StartsWith(c.name, DOT))]

\* [panic, why, val]: canonicalize().unwrap() and the file_name panic come
\* before the level and visibility tests
check_if_list_dir(o, dir_path) ==
    LET c == Lookup(fs, dir_path).canon
    IN  IF ~c.ok THEN [panic |-> TRUE, why |-> "canonicalize", val |-> FALSE]
        ELSE IF c.name = <<>> THEN [panic |-> TRUE, why |-> "file_name", val |-> FALSE]
        ELSE [panic |-> FALSE, why |-> "",
              val |-> /\ (o.level > 0 \/ o.recursive)
                      /\ (\/ o.hidden /\ StartsWith(c.name, DOT)
                          \/ o.unhidden /\ ~StartsWith(c.name, DOT))]

RECURSIVE inner_list(_, _)
RECURSIVE list_entries(_, _, _)

\* The body of `for file in files`, from entry k on: the same text in list
\* and in inner_list.
list_entries(o, path, k) ==
    LET files == Lookup(fs, path).children
    IN
    IF k > Len(files) THEN Ok(<<>>, {})
    ELSE
      LET file_path == path \o <<files[k].name>>
          here ==
            IF is_dir(file_path) THEN
              LET nl == next_level(o)
                  d  == {[level |-> o.level, recursive |-> o.recursive, child |-> nl.val]}
              IN
              IF nl.panic THEN Panic("overflow", {})
              ELSE
                LET sub_opt == [o EXCEPT !.level = nl.val]
                    pushed  == IF o.dir THEN <<file_path>> ELSE <<>>
                    chk     == check_if_list_dir(sub_opt, file_path)
                IN
                IF chk.panic THEN Panic(chk.why, d)
                ELSE IF chk.val THEN
                  LET sub_list == inner_list(sub_opt, file_path)
                  IN  IF sub_list.status = "panic"
                      THEN Panic(sub_list.why, d \cup sub_list.derived)
                      ELSE Ok(pushed \o sub_list.ret, d \cup sub_list.derived)
                ELSE Ok(pushed, d)
            ELSE IF is_file(file_path) THEN
              IF check_if_show_file(o, file_path) THEN Ok(<<file_path>>, {})
              ELSE Ok(<<>>, {})
            ELSE Ok(<<>>, {})
      IN
      IF here.status = "panic" THEN here
      ELSE
        LET rest == list_entries(o, path, k + 1)
        IN  IF rest.status = "panic"
            THEN Panic(rest.why, here.derived \cup rest.derived)
            ELSE Ok(here.ret \o rest.ret, here.derived \cup rest.derived)

inner_list(o, path) ==
    IF ~exists(path) THEN Ok(<<>>, {})
    ELSE IF is_file(path) THEN
      IF o.file /\ check_if_show_file(o, path) THEN Ok(<<path>>, {}) ELSE Ok(<<>>, {})
    ELSE IF is_dir(path) THEN
      LET chk == check_if_list_dir(o, path)
      IN  IF chk.panic THEN Panic(chk.why, {})
          ELSE IF ~chk.val THEN Ok(<<>>, {})
          ELSE IF ~Lookup(fs, path).readable THEN Panic("read_dir", {})
          ELSE list_entries(o, path, 1)
    ELSE Ok(<<>>, {})

list(o, path) ==
    IF ~exists(path) THEN Ok(<<>>, {})
    ELSE IF is_file(path) THEN
      IF o.file /\ check_if_show_file(o, path) THEN Ok(<<path>>, {}) ELSE Ok(<<>>, {})
    ELSE IF is_dir(path) THEN
      IF ~Lookup(fs, path).readable THEN Panic("read_dir", {})
      ELSE list_entries(o, path, 1)
    ELSE Ok(<<>>, {})

----------------------------------------------------------------------------
(* The filesystems of the model *)

N_root == <<"r", "o", "o", "t">>
N_a_rs == <<"a", ".", "r", "s">>
N_b_toml == <<"b", ".", "t", "o", "m", "l">>
N_c_rs == <<".", "c", ".", "r", "s">>
N_sub  == <<"s", "u", "b">>
N_git  == <<".", "g", "i", "t">>
N_lnk  == <<"l", "n", "k">>
N_dead == <<"d", "e", "a", "d">>
N_priv == <<"p", "r", "i", "v">>
N_up   == <<"u", "p">>
N_gone == <<"g", "o", "n", "e">>
N_nope == <<"n", "o", "p", "e">>

Canon(n) == [ok |-> TRUE, name |-> n]

File(n)   == Node(n, "file", Canon(n), FALSE, <<>>)
Broken(n) == Node(n, "broken", [ok |-> FALSE, name |-> <<>>], FALSE, <<>>)

\* The directories a spine is made of: a plain directory, a hidden one, and
\* a symlink with a plain name to a hidden directory.
DirKinds == {"sub", "git", "lnk"}

Dir(kind, ch) ==
    CASE kind = "sub" -> Node(N_sub, "dir", Canon(N_sub), TRUE, ch)
      [] kind = "git" -> Node(N_git, "dir", Canon(N_git), TRUE, ch)
      [] kind = "lnk" -> Node(N_lnk, "dir", Canon(N_git), TRUE, ch)

\* What ends a spine: nothing, a dangling symlink, a directory read_dir
\* fails on, a symlink to "/", a directory canonicalize fails on.
Tails == {"none", "dead", "priv", "up", "gone"}

TailEntries(t) ==
    CASE t = "none" -> <<>>
      [] t = "dead" -> <<Broken(N_dead)>>
      [] t = "priv" -> <<Node(N_priv, "dir", Canon(N_priv), FALSE, <<>>)>>
      [] t = "up"   -> <<Node(N_up, "dir", Canon(<<>>), TRUE, <<>>)>>
      [] t = "gone" -> <<Node(N_gone, "dir", [ok |-> FALSE, name |-> <<>>], TRUE, <<>>)>>

\* Every directory holds a.rs, then its subdirectory (or the tail), then
\* b.toml and the hidden .c.rs: the order read_dir yields them in.
RECURSIVE Entries(_, _)
Entries(spine, t) ==
    <<File(N_a_rs)>>
    \o (IF spine = <<>> THEN TailEntries(t)
        ELSE <<Dir(Head(spine), Entries(Tail(spine), t))>>)
    \o <<File(N_b_toml), File(N_c_rs)>>

Tree(spine, t) == Node(N_root, "dir", Canon(N_root), TRUE, Entries(spine, t))

RECURSIVE SeqsUpTo(_, _)
SeqsUpTo(S, n) ==
    IF n = 0 THEN {<<>>}
    ELSE LET shorter == SeqsUpTo(S, n - 1)
         IN  shorter \cup {Append(q, x) : q \in shorter, x \in S}

Trees == {Tree(sp, t) : sp \in SeqsUpTo(DirKinds, MaxDepth), t \in Tails}

\* root/a.txt-like file, a hidden file and root/sub with a file in it
DemoTree == Tree(<<"sub">>, "none")

\* The paths list is called with: the root directory, a file, a hidden
\* file, and a path that does not exist.
RootPaths == {<<N_root>>, <<N_root, N_a_rs>>, <<N_root, N_c_rs>>, <<N_nope>>}

----------------------------------------------------------------------------
(* Values given to the builder *)

Levels == 0 .. MaxLevel

Args == {DotRS, DotTOML}

NoRepeat(q) == \A i, j \in DOMAIN q : i # j => q[i] # q[j]

ArgLists == {q \in SeqsUpTo(Args, MaxListLen) : NoRepeat(q)}

SufLists == {<<>>, <<DotRS>>, <<DotRS, DotTOML>>}

Options ==
    [dir : BOOLEAN, file : BOOLEAN, hidden : BOOLEAN, unhidden : BOOLEAN,
     recursive : BOOLEAN, level : Levels, sufs : SufLists]

Builds == {"checked", "wrapping"}

NoResult == [status |-> "none", why |-> "", ret |-> <<>>, derived |-> {}, root |-> <<>>]

\* a builder method returns self.clone(), not a vector
Self == [status |-> "self", why |-> "", ret |-> <<>>, derived |-> {}, root |-> <<>>]

----------------------------------------------------------------------------
(* Actions *)

Call(name, arg) == [name |-> name, arg |-> arg]

\* One run of a program such as examples/list_all_rs.rs: builder calls, then
\* one call of list, whose return (or panic) ends the run.
Running == res.status \notin {"ok", "panic"}

Build(name, arg, o) ==
    /\ Running
    /\ Len(calls) < MaxCalls
    /\ opt' = o
    /\ calls' = Append(calls, Call(name, arg))
    /\ res' = Self
    /\ UNCHANGED <<fs, build>>

SetDir       == \E b \in BOOLEAN : Build("dir", <<b>>, dir(opt, b))
SetFile      == \E b \in BOOLEAN : Build("file", <<b>>, file(opt, b))
SetHidden    == \E b \in BOOLEAN : Build("hidden", <<b>>, hidden(opt, b))
SetUnhidden  == \E b \in BOOLEAN : Build("unhidden", <<b>>, unhidden(opt, b))
SetLevel     == \E n \in Levels : Build("level", <<n>>, level(opt, n))
SetRecursive == \E b \in BOOLEAN : Build("recursive", <<b>>, recursive(opt, b))
AddExt       == \E e \in Args : Build("ext", <<e>>, ext(opt, e))
SetExts      == \E es \in ArgLists : Build("exts", es, exts(opt, es))
AddSuf       == \E s \in Args : Build("suf", <<s>>, suf(opt, s))
SetSufs      == \E ss \in ArgLists : Build("sufs", ss, sufs(opt, ss))

List ==
    \E p \in RootPaths :
        /\ Running
        /\ res' = [list(opt, p) EXCEPT !.root = p]
        /\ UNCHANGED <<opt, fs, build, calls>>

----------------------------------------------------------------------------
(* Spec: list on every option value and every tree of the model *)

Init ==
    /\ opt \in Options
    /\ fs \in Trees
    /\ build \in Builds
    /\ calls = <<>>
    /\ res = NoResult

Next == List

Spec == Init /\ [][Next]_vars

(* SpecBuilder: the builder from the default options, then list on the    *)
(* demo tree                                                               *)

InitBuilder ==
    /\ opt = Default
    /\ fs = DemoTree
    /\ build \in Builds
    /\ calls = <<>>
    /\ res = NoResult

NextBuilder ==
    \/ SetDir \/ SetFile \/ SetHidden \/ SetUnhidden \/ SetLevel \/ SetRecursive
    \/ AddExt \/ SetExts \/ AddSuf \/ SetSufs
    \/ List

SpecBuilder == InitBuilder /\ [][NextBuilder]_vars

----------------------------------------------------------------------------
(* What the claims speak of *)

Called   == res.status \in {"ok", "panic"}
Returned == res.status = "ok"
RetSet   == {res.ret[i] : i \in DOMAIN res.ret}

\* the paths of everything below the node n, whose own path is p
RECURSIVE Below(_, _)
Below(n, p) ==
    UNION {{p \o <<n.children[i].name>>}
           \cup Below(n.children[i], p \o <<n.children[i].name>>)
           : i \in DOMAIN n.children}

Descendants(p) == Below(Lookup(fs, p), p)

Visible(o, name) ==
    \/ o.hidden /\ StartsWith(name, DOT)
    \/ o.unhidden /\ ~StartsWith(name, DOT)

TypeOk(o, p) == (is_file(p) /\ o.file) \/ (is_dir(p) /\ o.dir)

SuffixOk(o, name) ==
    o.sufs = <<>> \/ \E i \in DOMAIN o.sufs : EndsWith(name, o.sufs[i])

\* the type, visibility and suffix checks on the final component of p
Passes(o, p) ==
    TypeOk(o, p) /\ Visible(o, file_name(p)) /\ SuffixOk(o, file_name(p))

\* every directory strictly between root and p is visible under its
\* canonical name
AncestorsVisible(o, root, p) ==
    \A k \in (Len(root) + 1) .. (Len(p) - 1) :
        Visible(o, Lookup(fs, SubSeq(p, 1, k)).canon.name)

Max(a, b) == IF a >= b THEN a ELSE b

----------------------------------------------------------------------------
(* C1: with hidden = false and unhidden = false, list returns an empty     *)
(* sequence, whatever the other fields and the tree.                       *)
C1_Original ==
    (Returned /\ ~opt.hidden /\ ~opt.unhidden) => res.ret = <<>>

(* C2: with recursive = false and level = N no returned path lies more     *)
(* than N levels below the root, and with level = 0 the call completes     *)
(* normally and returns no child of the root.                              *)
C2_Original ==
    (Called /\ ~opt.recursive) =>
        /\ res.why # "overflow"
        /\ \A p \in RetSet : Len(p) - Len(res.root) <= opt.level

(* C3, as claimed: with recursive = true list returns every descendant of  *)
(* the root that passes the type, visibility and suffix checks, whatever   *)
(* its ancestors are.                                                      *)
C3_Original ==
    (Returned /\ opt.recursive) =>
        \A p \in Descendants(res.root) : Passes(opt, p) => p \in RetSet

(* C3, amended: with recursive = true list returns every descendant of the *)
(* root that passes the type, visibility and suffix checks and whose       *)
(* ancestor directories below the root all pass the visibility check under *)
(* their canonical names.                                                  *)
C3_Amended ==
    (Returned /\ opt.recursive) =>
        \A p \in Descendants(res.root) :
            (Passes(opt, p) /\ AncestorsVisible(opt, res.root, p)) => p \in RetSet

\* a recursive walk with level 0 that returned a file three directories
\* down, past a symlink to a hidden directory
C3_Witness ==
    /\ Returned /\ opt.recursive /\ opt.level = 0
    /\ opt.hidden /\ opt.unhidden /\ opt.file /\ opt.sufs = <<DotRS>>
    /\ res.root = <<N_root>>
    /\ <<N_root, N_sub, N_lnk, N_a_rs>> \in RetSet

(* C4: with a non-empty suffix list every returned path, file or           *)
(* directory, has a final component ending with one of the suffixes.       *)
C4_Original ==
    (Returned /\ opt.sufs # <<>>) =>
        \A p \in RetSet : \E i \in DOMAIN opt.sufs : EndsWith(file_name(p), opt.sufs[i])

(* C5, as claimed: an existing root that passes the match predicate (type, *)
(* visibility, depth eligibility, suffix) is the first element of the      *)
(* result, be it a file or a directory.                                    *)
C5_Original ==
    (/\ Returned
     /\ exists(res.root)
     /\ Passes(opt, res.root)
     /\ (opt.recursive \/ opt.level > 0)) =>
        res.ret # <<>> /\ res.ret[1] = res.root

(* C5, amended: a root that is a file passing the type, visibility and     *)
(* suffix checks is returned, and is the whole result, whatever the level; *)
(* a root that is a directory is never in the result.                      *)
C5_Amended ==
    Returned =>
        /\ (is_file(res.root) /\ Passes(opt, res.root)) => res.ret = <<res.root>>
        /\ is_dir(res.root) => res.root \notin RetSet

\* the hidden file .c.rs listed as the root with level 0 and returned
C5_Witness ==
    /\ Returned /\ res.root = <<N_root, N_c_rs>>
    /\ opt.hidden /\ ~opt.unhidden /\ opt.level = 0 /\ ~opt.recursive
    /\ res.ret = <<res.root>>

(* C6: when an access fails during the call (here: an entry of the root    *)
(* directory whose type cannot be tested) the call ends in a fatal error   *)
(* and returns no sequence.                                                *)
C6_Original ==
    (/\ Called
     /\ is_dir(res.root)
     /\ \E i \in DOMAIN Lookup(fs, res.root).children :
            Lookup(fs, res.root).children[i].kind = "broken") =>
        res.status = "panic"

C10_Original ==
    Called =>
        /\ res.why # "overflow"
        /\ \A d \in res.derived :
              d.child = IF d.recursive THEN d.level ELSE Max(d.level - 1, 0)

----------------------------------------------------------------------------
(* The suffix list a history of builder calls should leave *)

IsReplace(c) == c.name \in {"exts", "sufs"}
IsAppend(c)  == c.name \in {"ext", "suf"}

\* the entry a call makes of one argument
Entry(c, x) == IF c.name \in {"ext", "exts"} THEN <<".">> \o x ELSE x

LastReplace(h) ==
    LET R == {i \in DOMAIN h : IsReplace(h[i])}
    IN  IF R = {} THEN 0 ELSE CHOOSE i \in R : \A j \in R : j <= i

RECURSIVE AppendsFrom(_, _)
AppendsFrom(h, k) ==
    IF k > Len(h) THEN <<>>
    ELSE (IF IsAppend(h[k]) THEN <<Entry(h[k], h[k].arg[1])>> ELSE <<>>)
         \o AppendsFrom(h, k + 1)

ExpectedSufs(h) ==
    LET r == LastReplace(h)
    IN  (IF r = 0 THEN <<>>
         ELSE [i \in DOMAIN h[r].arg |-> Entry(h[r], h[r].arg[i])])
        \o AppendsFrom(h, r + 1)

SufRsThenSufToml == calls = <<Call("suf", <<DotRS>>), Call("suf", <<DotTOML>>)>>

IsFilePath(p) == is_file(p)

====
